---- MODULE Spec2Model ----
(***************************************************************************)
(* Model of Health_Management_Dashboard.py: a Streamlit script that loads  *)
(* a sheet of clinic visits, filters it by five multiselect widgets,       *)
(* computes five KPIs and five grouped aggregations with an insight each,  *)
(* and offers the filtered rows as CSV.  Streamlit runs the whole script   *)
(* once when the session starts and once more after every widget           *)
(* interaction, so one action of the model is one complete script run.     *)
(*                                                                         *)
(* Encoding of cells.  Text cells are strings, a missing text cell is the  *)
(* string NaN.  Numeric cells are naturals; a missing numeric cell is      *)
(* NaNNum and a cell holding text in a numeric column is NonNumeric.       *)
(* Dates are naturals yyyymmdd, the null date is NaT.  BMI is kept in      *)
(* tenths (18.5 is 185).  Percentages and means are kept in hundredths,    *)
(* the precision the script prints them with.                              *)
(***************************************************************************)
EXTENDS Integers, Sequences, FiniteSets, TLC

\* ---------------------------------------------------------------- bounds
MaxRows == 2
MaxSelected == 2
MaxBmi == 400

\* ------------------------------------------------------- cell encodings
NaN == "NaN"
NaNNum == 0 - 1
NonNumeric == 0 - 2
NaT == 0
NaTMonth == 999999
ZeroDivisionError == 0 - 3
NotComputed == 0 - 9

VARIABLES xlsx, df, doctors, cities, genders, diagnoses, insurance,
          filtered_df, total_patients, chronic_pct, missed_pct, revenue,
          avg_sat, appt_over_time, peak_day, monthly_rev, top_month,
          diag_ct, common_diag, bmi_ct, top_bmi, fu_ct, top_fu,
          csv_data, error, downloaded, bmi, BMI_Category, pc

vars == <<xlsx, df, doctors, cities, genders, diagnoses, insurance,
          filtered_df, total_patients, chronic_pct, missed_pct, revenue,
          avg_sat, appt_over_time, peak_day, monthly_rev, top_month,
          diag_ct, common_diag, bmi_ct, top_bmi, fu_ct, top_fu,
          csv_data, error, downloaded, bmi, BMI_Category, pc>>

\* ------------------------------------------------------ generic helpers
SeqToSet(s) == {s[i] : i \in 1..Len(s)}

RECURSIVE SumSeq(_)
SumSeq(s) == IF s = <<>> THEN 0 ELSE s[1] + SumSeq(Tail(s))

RECURSIVE SortSet(_)
SortSet(S) ==
    IF S = {} THEN <<>>
    ELSE LET m == CHOOSE x \in S : \A y \in S : x <= y
         IN <<m>> \o SortSet(S \ {m})

\* frame[c]: one column of a frame, in row order
Column(frame, c) == [i \in 1..Len(frame) |-> frame[i][c]]

\* Series.unique(): distinct values in order of first appearance, NaN kept
RECURSIVE unique(_)
unique(col) ==
    IF col = <<>> THEN <<>>
    ELSE LET n == Len(col)
             p == unique(SubSeq(col, 1, n - 1))
         IN IF col[n] \in SeqToSet(p) THEN p ELSE Append(p, col[n])

\* Series.nunique(): number of distinct values, NaN dropped
nunique(col) == Cardinality(SeqToSet(col) \ {NaN})

\* ------------------------------------------------------------ the sheet
RawHeaders == {"Patient ID", "Appointment Date", " Doctor", "City", "Gender",
               "Diagnosis", "Insurance Status", "Checkup Status",
               "Bill Amount", "Payment Status", "Follow-Up Required",
               "Satisfaction Score", "BMI "}

RawRow(id, date, doc, city, gender, diag, ins, status, bill, fu, sat, b) ==
    [h \in RawHeaders |->
        CASE h = "Patient ID" -> id
          [] h = "Appointment Date" -> date
          [] h = " Doctor" -> doc
          [] h = "City" -> city
          [] h = "Gender" -> gender
          [] h = "Diagnosis" -> diag
          [] h = "Insurance Status" -> ins
          [] h = "Checkup Status" -> status
          [] h = "Bill Amount" -> bill
          [] h = "Payment Status" -> "Paid"
          [] h = "Follow-Up Required" -> fu
          [] h = "Satisfaction Score" -> sat
          [] h = "BMI " -> b]

\* The rows a sheet of the model is drawn from.  Row 3 has no score; row 4
\* has an unparseable date, no diagnosis, follow-up value, bill or BMI, and
\* text for a score; row 5 has no patient id; row 6 has text for a bill.
SampleRows == <<
    RawRow("P1", 20240105, "DrA", "Pune", "F", "Hypertension", "Insured",
           "Completed", 100, "Yes", 4, 170),
    RawRow("P2", 20240105, "DrB", "Delhi", "M", "Flu", "Uninsured",
           "Missed", 200, "No", 5, 185),
    RawRow("P1", 20240210, "DrA", "Delhi", "F", "Diabetes", "Insured",
           "Missed", 300, "Yes", NaNNum, 250),
    RawRow("P2", NonNumeric, "DrB", "Pune", "M", NaN, "Uninsured",
           "Completed", NaNNum, NaN, NonNumeric, NaNNum),
    RawRow(NaN, 20240105, "DrB", "Delhi", "F", "Obesity", "Insured",
           "Completed", 100, "No", 3, 310),
    RawRow("P1", 20240311, "DrA", "Delhi", "M", "Flu", "Uninsured",
           "Completed", NonNumeric, "Yes", 5, 300) >>

Sheets == UNION {[1..n -> SeqToSet(SampleRows)] : n \in 0..MaxRows}

\* --------------------------------------------- ingestion (lines 9 to 34)
\* df.columns.str.strip(), over the headers of the sheet
strip(h) ==
    CASE h = " Doctor" -> "Doctor"
      [] h = "BMI " -> "BMI"
      [] OTHER -> h

\* df.rename(columns={...})
rename(h) ==
    CASE h = "Patient ID" -> "Patient_ID"
      [] h = "Appointment Date" -> "Appointment_Date"
      [] h = "Checkup Status" -> "Status"
      [] h = "Bill Amount" -> "Bill_Amount"
      [] h = "Payment Status" -> "Payment_Status"
      [] h = "Follow-Up Required" -> "FollowUp_Required"
      [] h = "Satisfaction Score" -> "Satisfaction_Score"
      [] OTHER -> h

\* pd.to_datetime(..., errors="coerce"): anything that is not a date is NaT
to_datetime(cell) == IF cell > 0 THEN cell ELSE NaT

\* .dt.to_period("M").astype(str): the year-month, "NaT" for the null date
to_period_M(date) == IF date = NaT THEN NaTMonth ELSE date \div 100

\* .dt.day_name(), NaN for the null date
DayNames == <<"Sunday", "Monday", "Tuesday", "Wednesday", "Thursday",
              "Friday", "Saturday">>

MonthOffsets == <<0, 3, 2, 5, 0, 3, 5, 1, 4, 6, 2, 4>>

day_name(date) ==
    IF date = NaT THEN NaN
    ELSE LET d == date % 100
             m == (date \div 100) % 100
             y0 == date \div 10000
             y == IF m < 3 THEN y0 - 1 ELSE y0
             w == (y + (y \div 4) - (y \div 100) + (y \div 400)
                     + MonthOffsets[m] + d) % 7
         IN DayNames[w + 1]

bmi_bucket_le(b) ==
    IF b = NaNNum THEN "Unknown"
    ELSE IF b <= 185 THEN "Underweight"
    ELSE IF b <= 250 THEN "Normal"
    ELSE IF b <= 300 THEN "Overweight"
    ELSE "Obesity"

bmi_bucket(b) ==
    IF b = NaNNum THEN "Unknown"
    ELSE IF b < 185 THEN "Underweight"
    ELSE IF b < 250 THEN "Normal"
    ELSE IF b < 300 THEN "Overweight"
    ELSE "Obesity"

\* the columns of df once the headers are stripped and renamed, and the
\* sheet header each one comes from
RenamedHeaders == {rename(strip(h)) : h \in RawHeaders}

HeaderOf == [c \in RenamedHeaders |->
                CHOOSE h \in RawHeaders : rename(strip(h)) = c]

Columns == RenamedHeaders \cup {"Month", "DayOfWeek", "BMI_Category"}

\* lines 12-34 for one row of the sheet
IngestRow(raw) ==
    [c \in Columns |->
        CASE c = "Appointment_Date" -> to_datetime(raw[HeaderOf[c]])
          [] c = "Month" ->
                to_period_M(to_datetime(raw[HeaderOf["Appointment_Date"]]))
          [] c = "DayOfWeek" ->
                day_name(to_datetime(raw[HeaderOf["Appointment_Date"]]))
          [] c = "BMI_Category" -> bmi_bucket(raw[HeaderOf["BMI"]])
          [] OTHER -> raw[HeaderOf[c]]]

Ingest(sheet) == [i \in 1..Len(sheet) |-> IngestRow(sheet[i])]

\* -------------------------------------- filter application (lines 41-52)
FilterColumns == {"Doctor", "City", "Gender", "Diagnosis", "Insurance Status"}

\* the options a multiselect offers: df[c].unique()
Options(frame, c) == SeqToSet(unique(Column(frame, c)))

isin_rows_negated(frame, c, values) ==
    SelectSeq(frame, LAMBDA r : r[c] \notin values)

\* frame[frame[c].isin(values)]
isin_rows(frame, c, values) == SelectSeq(frame, LAMBDA r : r[c] \in values)

apply_filters_or(frame, d, c, g, dg, ins) ==
    IF d = {} /\ c = {} /\ g = {} /\ dg = {} /\ ins = {} THEN frame
    ELSE SelectSeq(frame, LAMBDA r :
            \/ r["Doctor"] \in d \/ r["City"] \in c \/ r["Gender"] \in g
            \/ r["Diagnosis"] \in dg \/ r["Insurance Status"] \in ins)

apply_filters_tail(frame, d, c, g, dg, ins) ==
    LET kept == isin_rows(frame, "Doctor", d)
        f1 == IF d /= {} THEN SubSeq(kept, 2, Len(kept)) ELSE frame
        f2 == IF c /= {} THEN isin_rows(f1, "City", c) ELSE f1
        f3 == IF g /= {} THEN isin_rows(f2, "Gender", g) ELSE f2
        f4 == IF dg /= {} THEN isin_rows(f3, "Diagnosis", dg) ELSE f3
    IN IF ins /= {} THEN isin_rows(f4, "Insurance Status", ins) ELSE f4

apply_filters(frame, d, c, g, dg, ins) ==
    LET f1 == IF d /= {} THEN isin_rows(frame, "Doctor", d) ELSE frame
        f2 == IF c /= {} THEN isin_rows(f1, "City", c) ELSE f1
        f3 == IF g /= {} THEN isin_rows(f2, "Gender", g) ELSE f2
        f4 == IF dg /= {} THEN isin_rows(f3, "Diagnosis", dg) ELSE f3
    IN IF ins /= {} THEN isin_rows(f4, "Insurance Status", ins) ELSE f4

\* ------------------------------------------------------ KPIs (lines 59-73)
ChronicDiagnoses == {"Hypertension", "Diabetes", "Obesity"}

\* a ratio times 100, to the two decimals the script prints, in hundredths
pct(num, den) == (num * 10000 * 2 + den) \div (2 * den)

\* pd.to_numeric(..., errors="coerce"): text in a numeric column becomes NaN
to_numeric(cell) == IF cell = NonNumeric THEN NaNNum ELSE cell

\* .fillna(0)
fillna0(cell) == IF cell = NaNNum THEN 0 ELSE cell

total_patients_of(f) == nunique(Column(f, "Patient_ID"))

chronic_pct_unguarded(f) ==
    IF nunique(Column(f, "Patient_ID")) = 0 THEN ZeroDivisionError
    ELSE pct(nunique(Column(isin_rows(f, "Diagnosis", ChronicDiagnoses),
                            "Patient_ID")),
             nunique(Column(f, "Patient_ID")))

\* lines 62-63; dividing by a distinct count of 0 raises ZeroDivisionError
chronic_pct_of(f) ==
    IF Len(f) /= 0
    THEN IF nunique(Column(f, "Patient_ID")) = 0 THEN ZeroDivisionError
         ELSE pct(nunique(Column(isin_rows(f, "Diagnosis", ChronicDiagnoses),
                                 "Patient_ID")),
                  nunique(Column(f, "Patient_ID")))
    ELSE 0

\* line 66
missed_pct_of(f) ==
    IF Len(f) /= 0
    THEN pct(Len(SelectSeq(f, LAMBDA r : r["Status"] = "Missed")), Len(f))
    ELSE 0

\* line 69
revenue_of(f) ==
    SumSeq([i \in 1..Len(f) |-> fillna0(to_numeric(f[i]["Bill_Amount"]))])

\* line 72: the mean of the scores that are numbers, NaN when there is none
avg_sat_of(f) ==
    LET scores == SelectSeq([i \in 1..Len(f) |->
                                to_numeric(f[i]["Satisfaction_Score"])],
                            LAMBDA x : x /= NaNNum)
    IN IF Len(scores) = 0 THEN NaNNum
       ELSE (SumSeq(scores) * 100 * 2 + Len(scores)) \div (2 * Len(scores))

\* line 73: what the Avg Satisfaction metric shows
sat_label(mean) == IF mean = NaNNum THEN "N/A" ELSE ToString(mean)

\* ----------------------------------------- aggregations (lines 81-126)
\* An aggregation is a frame of rows [key, val] in the order pandas gives it.
Vals(agg) == [i \in 1..Len(agg) |-> agg[i].val]

\* groupby(c).size().reset_index(): one row per distinct key, keys sorted,
\* rows whose key is null dropped
groupby_size(f, c) ==
    LET keys == SortSet(SeqToSet(Column(f, c)) \ {NaT})
    IN [i \in 1..Len(keys) |->
           [key |-> keys[i],
            val |-> Len(SelectSeq(f, LAMBDA r : r[c] = keys[i]))]]

\* the sum of one group of Bill_Amount cells: NaN cells are skipped; cells
\* that are all text add up to text; a number and text cannot be added
TypeError == 0 - 4

group_sum(cells) ==
    LET nums == SelectSeq(cells, LAMBDA x : x >= 0)
        text == SelectSeq(cells, LAMBDA x : x = NonNumeric)
    IN IF Len(text) = 0 THEN SumSeq(nums)
       ELSE IF Len(nums) = 0 THEN NonNumeric
       ELSE TypeError

\* groupby("Month")["Bill_Amount"].sum().reset_index(); Month is a string
\* column, so the "NaT" month is a key like any other
groupby_month_sum(f) ==
    LET keys == SortSet(SeqToSet(Column(f, "Month")))
    IN [i \in 1..Len(keys) |->
           [key |-> keys[i],
            val |-> group_sum(Column(SelectSeq(f, LAMBDA r :
                                  r["Month"] = keys[i]), "Bill_Amount"))]]

\* sort by val, largest first, keeping the order of equal vals
RECURSIVE sort_desc(_)
sort_desc(agg) ==
    IF agg = <<>> THEN <<>>
    ELSE LET i == CHOOSE i \in 1..Len(agg) :
                     /\ \A j \in 1..Len(agg) : agg[j].val <= agg[i].val
                     /\ \A j \in 1..(i - 1) : agg[j].val /= agg[i].val
         IN <<agg[i]>> \o sort_desc(SubSeq(agg, 1, i - 1)
                                     \o SubSeq(agg, i + 1, Len(agg)))

\* f[c].value_counts().reset_index(): NaN dropped, one row per value in
\* order of first appearance, then sorted by count, largest first
value_counts(f, c) ==
    LET keys == SelectSeq(unique(Column(f, c)), LAMBDA k : k /= NaN)
    IN sort_desc([i \in 1..Len(keys) |->
                     [key |-> keys[i],
                      val |-> Len(SelectSeq(f, LAMBDA r : r[c] = keys[i]))]])

RECURSIVE idxmax_from(_, _, _)
idxmax_from(vals, i, best) ==
    IF i > Len(vals) THEN best
    ELSE idxmax_from(vals, i + 1, IF vals[i] > vals[best] THEN i ELSE best)

\* Series.idxmax(): the row of the first occurrence of the maximum
idxmax(vals) == idxmax_from(vals, 2, 1)

\* agg.loc[agg[val].idxmax(), key]
insight_key(agg) == agg[idxmax(Vals(agg))].key

\* ------------------------------------------------ export (lines 133-138)
ColumnOrder == <<"Patient_ID", "Appointment_Date", "Doctor", "City", "Gender",
                 "Diagnosis", "Insurance Status", "Status", "Bill_Amount",
                 "Payment_Status", "FollowUp_Required", "Satisfaction_Score",
                 "BMI", "Month", "DayOfWeek", "BMI_Category">>

NumericColumns == {"Appointment_Date", "Bill_Amount", "Satisfaction_Score",
                   "BMI", "Month"}

\* the text of one cell: a missing cell is written as the empty field
csv_cell(c, v) ==
    IF c \in NumericColumns
    THEN IF c = "Month"
         THEN IF v = NaTMonth THEN "NaT" ELSE ToString(v)
         ELSE IF v = NaNNum \/ (c = "Appointment_Date" /\ v = NaT) THEN ""
         ELSE IF v = NonNumeric THEN "text"
         ELSE ToString(v)
    ELSE IF v = NaN THEN "" ELSE v

\* filtered_df.to_csv(index=False): the header line, then a line per row
to_csv(f) ==
    <<ColumnOrder>> \o
    [i \in 1..Len(f) |->
        [j \in 1..Len(ColumnOrder) |->
            csv_cell(ColumnOrder[j], f[i][ColumnOrder[j]])]]

\* ------------------------------------------ one run of the whole script
Unset == <<>>
NoInsight == ""

base_rebound(base, filtered) == filtered

\* lines 47-52 bind only filtered_df; df keeps the frame built by ingestion
base_after_filter(base, filtered) == base

filter_previous(base, previous) == previous

\* line 47: every run starts again from a copy of df
filter_source(base, previous) == base

\* The values the module-level names hold when a run of the script ends.
\* An exception ends the run where it is raised: the names bound later keep
\* no value (NotComputed, Unset, NoInsight) and error names the exception.
Run(sheet, previous, d, c, g, dg, ins) ==
    LET base == Ingest(sheet)
        f == apply_filters(filter_source(base, previous), d, c, g, dg, ins)
        chronic == chronic_pct_of(f)
        ok1 == chronic /= ZeroDivisionError
        appt == groupby_size(f, "Appointment_Date")
        monthly == groupby_month_sum(f)
        sum_ok == \A i \in 1..Len(monthly) : monthly[i].val /= TypeError
        ok2 == ok1 /\ sum_ok
        max_ok == \A i \in 1..Len(monthly) : monthly[i].val /= NonNumeric
        ok3 == ok2 /\ max_ok
        diag == value_counts(f, "Diagnosis")
        bmis == value_counts(f, "BMI_Category")
        fus == value_counts(f, "FollowUp_Required")
    IN [df |-> base_after_filter(base, f),
        filtered_df |-> f,
        total_patients |-> total_patients_of(f),
        chronic_pct |-> IF ok1 THEN chronic ELSE NotComputed,
        missed_pct |-> IF ok1 THEN missed_pct_of(f) ELSE NotComputed,
        revenue |-> IF ok1 THEN revenue_of(f) ELSE NotComputed,
        avg_sat |-> IF ok1 THEN sat_label(avg_sat_of(f)) ELSE NoInsight,
        appt_over_time |-> IF ok1 THEN appt ELSE Unset,
        peak_day |-> IF ok1 /\ appt /= <<>> THEN insight_key(appt)
                     ELSE NotComputed,
        monthly_rev |-> IF ok2 THEN monthly ELSE Unset,
        top_month |-> IF ok3 /\ monthly /= <<>> THEN insight_key(monthly)
                      ELSE NotComputed,
        diag_ct |-> IF ok3 THEN diag ELSE Unset,
        common_diag |-> IF ok3 /\ diag /= <<>> THEN insight_key(diag)
                        ELSE NoInsight,
        bmi_ct |-> IF ok3 THEN bmis ELSE Unset,
        top_bmi |-> IF ok3 /\ bmis /= <<>> THEN insight_key(bmis)
                    ELSE NoInsight,
        fu_ct |-> IF ok3 THEN fus ELSE Unset,
        top_fu |-> IF ok3 /\ fus /= <<>> THEN insight_key(fus)
                   ELSE NoInsight,
        csv_data |-> IF ok3 THEN to_csv(f) ELSE Unset,
        error |-> IF ~ok1 THEN "ZeroDivisionError"
                  ELSE IF ~ok3 THEN "TypeError" ELSE ""]

Bind(r) ==
    /\ df' = r.df
    /\ filtered_df' = r.filtered_df
    /\ total_patients' = r.total_patients
    /\ chronic_pct' = r.chronic_pct
    /\ missed_pct' = r.missed_pct
    /\ revenue' = r.revenue
    /\ avg_sat' = r.avg_sat
    /\ appt_over_time' = r.appt_over_time
    /\ peak_day' = r.peak_day
    /\ monthly_rev' = r.monthly_rev
    /\ top_month' = r.top_month
    /\ diag_ct' = r.diag_ct
    /\ common_diag' = r.common_diag
    /\ bmi_ct' = r.bmi_ct
    /\ top_bmi' = r.top_bmi
    /\ fu_ct' = r.fu_ct
    /\ top_fu' = r.top_fu
    /\ csv_data' = r.csv_data
    /\ error' = r.error

\* ------------------------------------------------------------ the session
Selection == [c \in FilterColumns |->
                 CASE c = "Doctor" -> doctors
                   [] c = "City" -> cities
                   [] c = "Gender" -> genders
                   [] c = "Diagnosis" -> diagnoses
                   [] c = "Insurance Status" -> insurance]

NumSelected == Cardinality(doctors) + Cardinality(cities) + Cardinality(genders)
                 + Cardinality(diagnoses) + Cardinality(insurance)

\* Streamlit reruns the script with the widgets' new values
Rerun(sel) ==
    /\ doctors' = sel["Doctor"]
    /\ cities' = sel["City"]
    /\ genders' = sel["Gender"]
    /\ diagnoses' = sel["Diagnosis"]
    /\ insurance' = sel["Insurance Status"]
    /\ \E r \in {Run(xlsx, filtered_df, sel["Doctor"], sel["City"],
                      sel["Gender"], sel["Diagnosis"],
                      sel["Insurance Status"])} : Bind(r)
    /\ UNCHANGED <<xlsx, bmi, BMI_Category, pc>>

\* the user adds one of the offered values to a multiselect
Select(c, v) ==
    /\ pc = "session"
    /\ NumSelected < MaxSelected
    /\ v \in Options(df, c) \ Selection[c]
    /\ Rerun([Selection EXCEPT ![c] = @ \cup {v}])
    /\ downloaded' = Unset

\* the user removes a chosen value from a multiselect
Deselect(c, v) ==
    /\ pc = "session"
    /\ v \in Selection[c]
    /\ Rerun([Selection EXCEPT ![c] = @ \ {v}])
    /\ downloaded' = Unset

\* the user clicks the download button of the finished run; the click hands
\* over the bytes prepared by that run and reruns the script.  downloaded is
\* what the latest interaction delivered to the user, Unset for a filter
\* change
Download ==
    /\ pc = "session"
    /\ error = ""
    /\ downloaded' = csv_data
    /\ Rerun(Selection)

SessionInit ==
    /\ xlsx \in Sheets
    /\ doctors = {} /\ cities = {} /\ genders = {}
    /\ diagnoses = {} /\ insurance = {}
    /\ \E r \in {Run(xlsx, Unset, {}, {}, {}, {}, {})} :
          /\ df = r.df
          /\ filtered_df = r.filtered_df
          /\ total_patients = r.total_patients
          /\ chronic_pct = r.chronic_pct
          /\ missed_pct = r.missed_pct
          /\ revenue = r.revenue
          /\ avg_sat = r.avg_sat
          /\ appt_over_time = r.appt_over_time
          /\ peak_day = r.peak_day
          /\ monthly_rev = r.monthly_rev
          /\ top_month = r.top_month
          /\ diag_ct = r.diag_ct
          /\ common_diag = r.common_diag
          /\ bmi_ct = r.bmi_ct
          /\ top_bmi = r.top_bmi
          /\ fu_ct = r.fu_ct
          /\ top_fu = r.top_fu
          /\ csv_data = r.csv_data
          /\ error = r.error
    /\ downloaded = Unset

Init ==
    /\ SessionInit
    /\ bmi = NaNNum
    /\ BMI_Category = bmi_bucket(NaNNum)
    /\ pc = "session"

Next ==
    \/ \E c \in FilterColumns : \E v \in Options(df, c) : Select(c, v)
    \/ \E c \in FilterColumns : \E v \in Selection[c] : Deselect(c, v)
    \/ Download

Spec == Init /\ [][Next]_vars

\* ------------------------------------- bmi_bucket over the range of inputs
BmiInputs == (0..MaxBmi) \cup {NaNNum}

\* line 34 for one cell of the BMI column
ApplyBucket ==
    /\ pc = "bmi"
    /\ BMI_Category' = bmi_bucket(bmi)
    /\ pc' = "bucketed"
    /\ UNCHANGED <<xlsx, df, doctors, cities, genders, diagnoses, insurance,
                   filtered_df, total_patients, chronic_pct, missed_pct,
                   revenue, avg_sat, appt_over_time, peak_day, monthly_rev,
                   top_month, diag_ct, common_diag, bmi_ct, top_bmi, fu_ct,
                   top_fu, csv_data, error, downloaded, bmi>>

InitBmi ==
    /\ SessionInit
    /\ xlsx = <<>>
    /\ bmi \in BmiInputs
    /\ BMI_Category = NoInsight
    /\ pc = "bmi"

NextBmi == ApplyBucket

SpecBmi == InitBmi /\ [][NextBmi]_vars

\* ============================================================ properties
\* what the specification asks of the filter: a row is kept exactly when,
\* for every column with a non-empty selection, its value is selected
Matches(r, sel) == \A c \in FilterColumns : sel[c] = {} \/ r[c] \in sel[c]

\* C1: the filtered set is exactly the rows of the base set that, for every
\* filter column whose selection is non-empty, hold a selected value; an
\* empty selection constrains nothing and the columns combine with AND.
C1_FilteredIsConjunction ==
    filtered_df = SelectSeq(df, LAMBDA r : Matches(r, Selection))

C1_Witness ==
    /\ doctors /= {} /\ cities /= {}
    /\ Len(filtered_df) > 0 /\ Len(filtered_df) < Len(df)

\* C2: bmi_bucket answers Unknown for a missing bmi and, for every bmi from
\* 0 up, exactly the bucket of its half-open range: below 18.5 Underweight,
\* 18.5 up to 25 Normal, 25 up to 30 Overweight, 30 and above Obesity.
C2_BucketsAreHalfOpen ==
    pc = "bucketed" =>
        /\ bmi = NaNNum <=> BMI_Category = "Unknown"
        /\ (bmi >= 0 /\ bmi < 185) <=> BMI_Category = "Underweight"
        /\ (bmi >= 185 /\ bmi < 250) <=> BMI_Category = "Normal"
        /\ (bmi >= 250 /\ bmi < 300) <=> BMI_Category = "Overweight"
        /\ bmi >= 300 <=> BMI_Category = "Obesity"

C2_Witness == pc = "bucketed" /\ bmi = 185 /\ BMI_Category = "Normal"

\* C3: when no row matches the selection the run raises nothing and the
\* KPIs are 0 patients, 0 % chronic, 0 % missed, 0 revenue and N/A.
C3_EmptySetKpis ==
    Len(filtered_df) = 0 =>
        /\ error = ""
        /\ total_patients = 0
        /\ chronic_pct = 0
        /\ missed_pct = 0
        /\ revenue = 0
        /\ avg_sat = "N/A"

C3_Witness == Len(df) > 0 /\ NumSelected > 0 /\ Len(filtered_df) = 0

\* C4: in a run that completes, the counts of each of the four count
\* groupings add up to the number of filtered rows, and the monthly bill
\* sums add up to the Total revenue KPI.
C4_TotalsReconcile ==
    error = "" =>
        /\ SumSeq(Vals(appt_over_time)) = Len(filtered_df)
        /\ SumSeq(Vals(diag_ct)) = Len(filtered_df)
        /\ SumSeq(Vals(bmi_ct)) = Len(filtered_df)
        /\ SumSeq(Vals(fu_ct)) = Len(filtered_df)
        /\ SumSeq(Vals(monthly_rev)) = revenue

\* the step adds one value to the selection of column c
Adds(c) ==
    /\ doctors \subseteq doctors' /\ cities \subseteq cities'
    /\ genders \subseteq genders' /\ diagnoses \subseteq diagnoses'
    /\ insurance \subseteq insurance'
    /\ NumSelected' = NumSelected + 1
    /\ Selection[c] /= Selection'[c]

\* C5 as stated: adding a value to the selection of any column, an empty
\* one included, never lowers the number of filtered rows.
C5_AddingNeverShrinks ==
    [][(\E c \in FilterColumns : Adds(c))
          => Len(filtered_df') >= Len(filtered_df)]_vars

\* C5 as amended: adding a value to a selection that is already non-empty
\* never lowers the number of filtered rows.
C5_AddingToNonEmptyNeverShrinks ==
    [][(\E c \in FilterColumns : Selection[c] /= {} /\ Adds(c))
          => Len(filtered_df') >= Len(filtered_df)]_vars

C5_Witness ==
    \E c \in FilterColumns : \E v \in Selection[c] :
        /\ Selection[c] \ {v} /= {}
        /\ Len(filtered_df) > Len(SelectSeq(df, LAMBDA r :
                  Matches(r, [Selection EXCEPT ![c] = @ \ {v}])))

\* C6: filtering the filtered set again with the same selection gives the
\* filtered set back.
C6_FilterIsIdempotent ==
    apply_filters(filtered_df, doctors, cities, genders, diagnoses, insurance)
        = filtered_df

C6_Witness ==
    /\ NumSelected = MaxSelected
    /\ Len(filtered_df) > 0 /\ Len(filtered_df) < Len(df)

\* C7: no run of the script after the first changes the base dataset, its
\* derived columns Month, DayOfWeek and BMI_Category included.
C7_BaseIsNeverWritten == [][df' = df]_vars

C7_Witness ==
    /\ downloaded /= Unset
    /\ Len(filtered_df) < Len(df)
    /\ \E i \in 1..Len(df) : df[i]["BMI_Category"] /= "Unknown"

\* C8: each aggregation that is not empty has its insight name the key
\* of the first row, in the aggregation's own order, that holds the maximum.
IsFirstMaximum(agg, key) ==
    agg /= <<>> =>
        \E i \in 1..Len(agg) :
            /\ agg[i].key = key
            /\ \A j \in 1..Len(agg) : agg[j].val <= agg[i].val
            /\ \A j \in 1..(i - 1) : agg[j].val < agg[i].val

C8_InsightIsFirstMaximum ==
    /\ IsFirstMaximum(appt_over_time, peak_day)
    /\ IsFirstMaximum(monthly_rev, top_month)
    /\ IsFirstMaximum(diag_ct, common_diag)
    /\ IsFirstMaximum(bmi_ct, top_bmi)
    /\ IsFirstMaximum(fu_ct, top_fu)

C10_ChronicShareIsDefined ==
    Len(filtered_df) > 0 =>
        /\ error /= "ZeroDivisionError"
        /\ chronic_pct >= 0 /\ chronic_pct <= 10000

====
